---- MODULE Spec2Model ----
(***************************************************************************)
(* tensorlayer/layers/merge.py: the merge layers Concat and Elementwise.   *)
(*                                                                         *)
(* A tensor is a rank-2 array: a record whose value is a sequence of rows. *)
(* A call's outcome is a record of the same three fields, of kind          *)
(* "tensor" (a returned tensor), "none" (Python's None) or "raise" (an     *)
(* exception, named by the name field).                                    *)
(***************************************************************************)
EXTENDS Integers, Sequences, FiniteSets, TLC

VARIABLES
    name_dict,   \* base Layer naming service: generated names so far, per class
    layers,      \* the layer objects constructed so far, in construction order
    ctor_args,   \* for each layer, the arguments its constructor was called with
    inputs,      \* the list of tensors the caller has assembled for the next call
    call,        \* the last constructor, build or forward call and its outcome
    frames       \* per thread: the frame of its forward call in flight

vars == <<name_dict, layers, ctor_args, inputs, call, frames>>

----------------------------------------------------------------------------
\* Bounds of the model.

MaxLen == 3        \* longest list of input tensors
MaxLayers == 2     \* most layer objects alive at once
MaxNames == 2      \* most names the naming service hands out per class
MaxThreadLen == 2  \* longest input list of a concurrent call

\* Sample values the inputs are drawn from.
Dims == {1, 2}                 \* sizes of a tensor dimension
Fills == {0, 1}                \* distinguishes tensors of one shape
AxisArgs == -3 .. 2            \* concat_dim arguments: valid ones and one beyond each end
Threads == {1, 2}

----------------------------------------------------------------------------
\* Values.

NoneVal == "<None>"

Unset == "<unset>"      \* an attribute no statement has assigned

Unbound == "<unbound>"  \* a name bound neither locally nor in the module

Tensor(v, n) == [kind |-> "tensor", value |-> v, name |-> n]

Raise(exc) == [kind |-> "raise", value |-> <<>>, name |-> exc]

ReturnNone == [kind |-> "none", value |-> <<>>, name |-> NoneVal]

NoCall == [op |-> "idle", layer |-> 0, inputs |-> <<>>, ret |-> ReturnNone]

NumRows(t) == Len(t.value)

NumCols(t) == Len(t.value[1])

Shape(t) == <<NumRows(t), NumCols(t)>>

Rank == 2

\* An upstream layer's output of shape (r, c): entries differ by position and fill.
Fill(r, c, k) ==
    Tensor([i \in 1..r |-> [j \in 1..c |-> 4 * k + c * (i - 1) + j - 3]], "input")

TensorPool == {Fill(r, c, k) : r \in Dims, c \in Dims, k \in Fills}

----------------------------------------------------------------------------
\* The tensor engine: tf.concat(values, axis, name).

RECURSIVE JoinRows(_, _)
JoinRows(values, n) ==
    IF n = 0 THEN <<>> ELSE JoinRows(values, n - 1) \o values[n].value

RECURSIVE JoinCols(_, _, _)
JoinCols(values, n, i) ==
    IF n = 0 THEN <<>> ELSE JoinCols(values, n - 1, i) \o values[n].value[i]

tf_concat(values, axis, name) ==
    IF axis < -Rank \/ axis >= Rank
    THEN Raise("InvalidAxis")
    ELSE LET ax == IF axis < 0 THEN axis + Rank ELSE axis
             other == IF ax = 0 THEN 2 ELSE 1
         IN IF \E k \in 1..Len(values) : Shape(values[k])[other] # Shape(values[1])[other]
            THEN Raise("ShapeMismatch")
            ELSE IF ax = 0
                 THEN Tensor(JoinRows(values, Len(values)), name)
                 ELSE Tensor([i \in 1..NumRows(values[1]) |->
                                 JoinCols(values, Len(values), i)], name)

----------------------------------------------------------------------------
\* The base class: Layer.__init__(name) assigns the layer its name.

Prefix(cls) == IF cls = "Concat" THEN "concat" ELSE "elementwise"

GeneratedName(cls, n) == Prefix(cls) \o "_" \o ToString(n)

Layer_init(nd, cls, name) ==
    IF name = NoneVal
    THEN [name |-> GeneratedName(cls, nd[cls] + 1),
          name_dict |-> [nd EXCEPT ![cls] = @ + 1]]
    ELSE [name |-> name, name_dict |-> nd]

----------------------------------------------------------------------------
\* class Concat

ConcatNames == {NoneVal, "concat_layer"}

\* Mutant: the constructor falls back to the fixed name 'concat' instead of None.
Concat_init_default_name(nd, concat_dim, name) ==
    LET base == Layer_init(nd, "Concat", IF name = NoneVal THEN "concat" ELSE name)
    IN [self |-> [cls |-> "Concat", name |-> base.name, concat_dim |-> concat_dim],
        name_dict |-> base.name_dict,
        ret |-> ReturnNone]

Concat_init(nd, concat_dim, name) ==
    LET base == Layer_init(nd, "Concat", name)
    IN [self |-> [cls |-> "Concat", name |-> base.name, concat_dim |-> concat_dim],
        name_dict |-> base.name_dict,
        ret |-> ReturnNone]

\* Mutant: the layer concatenates along the first axis whatever concat_dim is.
Concat_forward_first_axis(self, ins) == tf_concat(ins, 0, self.name)

\* Mutant: the layer hands the inputs to the engine in reverse order.
Concat_forward_reversed(self, ins) ==
    tf_concat([k \in 1..Len(ins) |-> ins[Len(ins) + 1 - k]], self.concat_dim, self.name)

\* Mutant: the layer recovers from an engine error by returning its first input.
Concat_forward_recover(self, ins) ==
    LET r == tf_concat(ins, self.concat_dim, self.name)
    IN IF r.kind = "raise" THEN ins[1] ELSE r

Concat_forward(self, ins) == tf_concat(ins, self.concat_dim, self.name)

IsConcat(l) == l \in 1..Len(layers) /\ layers[l].cls = "Concat"

NewConcat(cap, concat_dim, name) ==
    /\ Len(layers) < cap
    /\ name_dict["Concat"] < MaxNames
    /\ LET r == Concat_init(name_dict, concat_dim, name)
       IN /\ name_dict' = r.name_dict
          /\ layers' = Append(layers, r.self)
          /\ ctor_args' = Append(ctor_args, [concat_dim |-> concat_dim, name |-> name])
          /\ call' = [op |-> "init", layer |-> Len(layers) + 1, inputs |-> <<>>,
                      ret |-> r.ret]
    /\ UNCHANGED <<inputs, frames>>

\* Mutant: build rewrites a negative concat_dim as the index from the front.
ConcatBuild_normalise(l) ==
    /\ IsConcat(l)
    /\ call' = [op |-> "build", layer |-> l, inputs |-> inputs, ret |-> ReturnNone]
    /\ layers' = [layers EXCEPT ![l].concat_dim = IF @ < 0 THEN @ + Rank ELSE @]
    /\ UNCHANGED <<name_dict, ctor_args, inputs, frames>>

ConcatBuild(l) ==
    /\ IsConcat(l)
    /\ call' = [op |-> "build", layer |-> l, inputs |-> inputs, ret |-> ReturnNone]
    /\ UNCHANGED <<name_dict, layers, ctor_args, inputs, frames>>

ConcatForward(l) ==
    /\ IsConcat(l)
    /\ Len(inputs) >= 1
    /\ call' = [op |-> "forward", layer |-> l, inputs |-> inputs,
                ret |-> Concat_forward(layers[l], inputs)]
    /\ UNCHANGED <<name_dict, layers, ctor_args, inputs, frames>>

----------------------------------------------------------------------------
\* The tensor engine: element-wise binary functions (with broadcasting of a
\* dimension of size 1) and activations.

CombineFns == {"tf.minimum", "tf.add", "tf.subtract"}

Acts == {NoneVal, "tf.nn.relu"}

Min(a, b) == IF a <= b THEN a ELSE b

Max(a, b) == IF a >= b THEN a ELSE b

Scalar(fn, x, y) ==
    IF fn = "tf.minimum" THEN Min(x, y)
    ELSE IF fn = "tf.add" THEN x + y
    ELSE x - y

Broadcastable(a, b) ==
    \A d \in 1..Rank : Shape(a)[d] = Shape(b)[d] \/ Shape(a)[d] = 1 \/ Shape(b)[d] = 1

tf_binary(fn, a, b, name) ==
    IF ~Broadcastable(a, b)
    THEN Raise("InvalidArgumentError")
    ELSE Tensor([i \in 1..Max(NumRows(a), NumRows(b)) |->
                    [j \in 1..Max(NumCols(a), NumCols(b)) |->
                        Scalar(fn, a.value[Min(i, NumRows(a))][Min(j, NumCols(a))],
                                   b.value[Min(i, NumRows(b))][Min(j, NumCols(b))])]],
                name)

tf_unary(act, t) ==
    IF act = "tf.nn.relu"
    THEN Tensor([i \in 1..NumRows(t) |-> [j \in 1..NumCols(t) |-> Max(t.value[i][j], 0)]],
                "Relu")
    ELSE t

----------------------------------------------------------------------------
\* class Elementwise

ElementwiseNames == {NoneVal, "minimum"}

\* What Layer.__init__(name) leaves in self.act when it is given no activation.
BaseActs == {Unset, NoneVal, "tf.identity"}

\* The names bound in the module: its imports and its two classes.
ModuleGlobals == {"tf", "Layer", "logging", "__all__", "Concat", "Elementwise"}

Global(id) == IF id \in ModuleGlobals THEN id ELSE Unbound

Elementwise_init(nd, base_act, combine_fn, act, name) ==
    LET base == Layer_init(nd, "Elementwise", name)
        self == [cls |-> "Elementwise", name |-> base.name,
                 combine_fn |-> Unset, act |-> base_act]
    IN [self |-> self,
        name_dict |-> base.name_dict,
        ret |-> IF self.act = Unset THEN Raise("AttributeError") ELSE ReturnNone]

CallCombine(fn, a, b, name) ==
    IF fn = Unbound THEN Raise("NameError") ELSE tf_binary(fn, a, b, name)

CallAct(act, t) ==
    IF act = Unset THEN Raise("AttributeError")
    ELSE IF act = NoneVal THEN Raise("TypeError")
    ELSE tf_unary(act, t)

RECURSIVE Fold(_, _, _, _, _)
Fold(fn, outputs, ins, i, name) ==
    IF outputs.kind = "raise" \/ i > Len(ins)
    THEN outputs
    ELSE Fold(fn, CallCombine(fn, outputs, ins[i], name), ins, i + 1, name)

Elementwise_forward(self, ins) ==
    LET outputs == Fold(Global("combine_fn"), ins[1], ins, 2, self.name)
    IN IF outputs.kind = "raise" THEN outputs ELSE CallAct(self.act, outputs)

IsElementwise(l) == l \in 1..Len(layers) /\ layers[l].cls = "Elementwise"

NewElementwise(cap, base_act, combine_fn, act, name) ==
    /\ Len(layers) < cap
    /\ name_dict["Elementwise"] < MaxNames
    /\ LET r == Elementwise_init(name_dict, base_act, combine_fn, act, name)
           ok == r.ret.kind # "raise"
       IN /\ name_dict' = r.name_dict
          /\ layers' = IF ok THEN Append(layers, r.self) ELSE layers
          /\ ctor_args' = IF ok
                          THEN Append(ctor_args, [combine_fn |-> combine_fn,
                                                  act |-> act, name |-> name])
                          ELSE ctor_args
          /\ call' = [op |-> "init", layer |-> IF ok THEN Len(layers) + 1 ELSE 0,
                      inputs |-> <<>>, ret |-> r.ret]
    /\ UNCHANGED <<inputs, frames>>

ElementwiseBuild(l) ==
    /\ IsElementwise(l)
    /\ call' = [op |-> "build", layer |-> l, inputs |-> inputs, ret |-> ReturnNone]
    /\ UNCHANGED <<name_dict, layers, ctor_args, inputs, frames>>

ElementwiseForward(l) ==
    /\ IsElementwise(l)
    /\ Len(inputs) >= 1
    /\ call' = [op |-> "forward", layer |-> l, inputs |-> inputs,
                ret |-> Elementwise_forward(layers[l], inputs)]
    /\ UNCHANGED <<name_dict, layers, ctor_args, inputs, frames>>

----------------------------------------------------------------------------
\* Concurrent forward calls on one layer: each thread runs in its own frame
\* (its arguments and locals) and reads the layer object.

IdleFrame ==
    [pc |-> "idle", layer |-> 0, inputs |-> <<>>, outputs |-> ReturnNone, i |-> 0,
     ret |-> ReturnNone]

ThreadPool == {Fill(1, 2, 0), Fill(2, 2, 1)}

ThreadInputs == UNION {[1..n -> ThreadPool] : n \in 1..MaxThreadLen}

\* The frame's view of the layer (self) and of its own argument.
Self(t) == layers[frames[t].layer]

\* Mutant: the argument is kept in one place shared by the calls in flight.
Args_shared(t) == frames[CHOOSE u \in Threads : frames[u].pc # "idle"].inputs

Args(t) == frames[t].inputs

ThreadCall(t, l, ins) ==
    /\ frames[t].pc = "idle"
    /\ l \in 1..Len(layers)
    /\ frames' = [frames EXCEPT ![t] =
                     [IdleFrame EXCEPT !.pc = IF layers[l].cls = "Concat" THEN "c74" ELSE "e138",
                                       !.layer = l, !.inputs = ins]]
    /\ UNCHANGED <<name_dict, layers, ctor_args, inputs, call>>

\* Concat.forward: outputs = tf.concat(inputs, self.concat_dim, name=self.name)
ConcatStep(t) ==
    /\ frames[t].pc = "c74"
    /\ frames' = [frames EXCEPT ![t].pc = "done",
                                ![t].ret = tf_concat(Args(t), Self(t).concat_dim, Self(t).name)]
    /\ UNCHANGED <<name_dict, layers, ctor_args, inputs, call>>

\* Elementwise.forward: outputs = inputs[0]
ElementwiseFirst(t) ==
    /\ frames[t].pc = "e138"
    /\ frames' = [frames EXCEPT ![t].pc = "e139", ![t].outputs = Args(t)[1], ![t].i = 2]
    /\ UNCHANGED <<name_dict, layers, ctor_args, inputs, call>>

\* for input in inputs[1:]
ElementwiseLoop(t) ==
    /\ frames[t].pc = "e139"
    /\ frames' = [frames EXCEPT ![t].pc = IF frames[t].i <= Len(Args(t)) THEN "e140" ELSE "e142"]
    /\ UNCHANGED <<name_dict, layers, ctor_args, inputs, call>>

\* outputs = combine_fn(outputs, input, name=self.name)
ElementwiseCombine(t) ==
    /\ frames[t].pc = "e140"
    /\ LET r == CallCombine(Global("combine_fn"), frames[t].outputs, Args(t)[frames[t].i],
                            Self(t).name)
       IN frames' = IF r.kind = "raise"
                    THEN [frames EXCEPT ![t].pc = "done", ![t].ret = r]
                    ELSE [frames EXCEPT ![t].pc = "e139", ![t].outputs = r, ![t].i = @ + 1]
    /\ UNCHANGED <<name_dict, layers, ctor_args, inputs, call>>

\* outputs = self.act(outputs); return outputs
ElementwiseAct(t) ==
    /\ frames[t].pc = "e142"
    /\ frames' = [frames EXCEPT ![t].pc = "done",
                                ![t].ret = CallAct(Self(t).act, frames[t].outputs)]
    /\ UNCHANGED <<name_dict, layers, ctor_args, inputs, call>>

\* The caller takes the result and the thread is free for another call.
ThreadReturn(t) ==
    /\ frames[t].pc = "done"
    /\ frames' = [frames EXCEPT ![t] = IdleFrame]
    /\ UNCHANGED <<name_dict, layers, ctor_args, inputs, call>>

----------------------------------------------------------------------------
\* The caller: the upstream layers' outputs are gathered into the input list.

Upstream(t) ==
    /\ Len(inputs) < MaxLen
    /\ inputs' = Append(inputs, t)
    /\ call' = NoCall
    /\ UNCHANGED <<name_dict, layers, ctor_args, frames>>

NewBatch ==
    /\ inputs # <<>>
    /\ inputs' = <<>>
    /\ call' = NoCall
    /\ UNCHANGED <<name_dict, layers, ctor_args, frames>>

----------------------------------------------------------------------------
Init ==
    /\ name_dict = [cls \in {"Concat", "Elementwise"} |-> 0]
    /\ layers = <<>>
    /\ ctor_args = <<>>
    /\ inputs = <<>>
    /\ call = NoCall
    /\ frames = [t \in Threads |-> IdleFrame]

\* One Concat layer, built and called on successive input lists.
NextConcat ==
    \/ \E d \in AxisArgs, n \in ConcatNames : NewConcat(1, d, n)
    \/ \E l \in 1..Len(layers) : ConcatBuild(l)
    \/ \E l \in 1..Len(layers) : ConcatForward(l)
    \/ \E t \in TensorPool : Upstream(t)
    \/ NewBatch

SpecConcat == Init /\ [][NextConcat]_vars

\* One Elementwise layer, built and called on successive input lists.
NextElementwise ==
    \/ \E b \in BaseActs, f \in CombineFns, a \in Acts, n \in ElementwiseNames :
          NewElementwise(1, b, f, a, n)
    \/ \E l \in 1..Len(layers) : ElementwiseBuild(l)
    \/ \E l \in 1..Len(layers) : ElementwiseForward(l)
    \/ \E t \in TensorPool : Upstream(t)
    \/ NewBatch

SpecElementwise == Init /\ [][NextElementwise]_vars

\* The construction of a layer graph: layers of both classes, built in any order.
Next ==
    \/ \E d \in AxisArgs, n \in ConcatNames : NewConcat(MaxLayers, d, n)
    \/ \E b \in BaseActs, f \in CombineFns, a \in Acts, n \in ElementwiseNames :
          NewElementwise(MaxLayers, b, f, a, n)
    \/ \E l \in 1..Len(layers) : ConcatBuild(l)
    \/ \E l \in 1..Len(layers) : ElementwiseBuild(l)

Spec == Init /\ [][Next]_vars

\* One layer of either class, called from several threads at once.
NextThreads ==
    \/ \E d \in AxisArgs : NewConcat(1, d, "concat_layer")
    \/ \E b \in BaseActs, f \in CombineFns, a \in Acts : NewElementwise(1, b, f, a, "minimum")
    \/ \E t \in Threads, l \in 1..Len(layers), ins \in ThreadInputs : ThreadCall(t, l, ins)
    \/ \E t \in Threads : ConcatStep(t)
    \/ \E t \in Threads : ElementwiseFirst(t)
    \/ \E t \in Threads : ElementwiseLoop(t)
    \/ \E t \in Threads : ElementwiseCombine(t)
    \/ \E t \in Threads : ElementwiseAct(t)
    \/ \E t \in Threads : ThreadReturn(t)

SpecThreads == Init /\ [][NextThreads]_vars

----------------------------------------------------------------------------
\* Properties of Concat.forward (SpecConcat).

ValidAxis(d) == d \in (-Rank) .. (Rank - 1)

\* The dimension (1-based) a valid axis argument names.
AxisDim(d) == (IF d < 0 THEN d + Rank ELSE d) + 1

AgreeOffAxis(ins, d) ==
    \A k \in 1..Len(ins), dim \in 1..Rank :
        dim # AxisDim(d) => Shape(ins[k])[dim] = Shape(ins[1])[dim]

RECURSIVE SumAlong(_, _, _)
SumAlong(ins, dim, n) ==
    IF n = 0 THEN 0 ELSE SumAlong(ins, dim, n - 1) + Shape(ins[n])[dim]

Rectangular(t) == \A i \in 1..Len(t.value) : Len(t.value[i]) = Len(t.value[1])

\* The k-th piece of t when t is split along dim at the inputs' boundaries.
Piece(t, ins, dim, k) ==
    LET off == SumAlong(ins, dim, k - 1)
        size == Shape(ins[k])[dim]
    IN IF dim = 1
       THEN SubSeq(t.value, off + 1, off + size)
       ELSE [i \in 1..Len(t.value) |-> SubSeq(t.value[i], off + 1, off + size)]

ConcatCalled == call.op = "forward" /\ IsConcat(call.layer)

ConfiguredAxis == ctor_args[call.layer].concat_dim

\* C4: for a non-empty list of tensors whose shapes agree off the configured
\* axis, Concat.forward returns a tensor whose size along the axis is the sum
\* of the inputs' sizes along it and whose other sizes are the common size.
C4_ConcatShape ==
    (ConcatCalled /\ ValidAxis(ConfiguredAxis) /\ AgreeOffAxis(call.inputs, ConfiguredAxis))
    => /\ call.ret.kind = "tensor"
       /\ Rectangular(call.ret)
       /\ \A dim \in 1..Rank :
             Shape(call.ret)[dim] =
                 IF dim = AxisDim(ConfiguredAxis)
                 THEN SumAlong(call.inputs, dim, Len(call.inputs))
                 ELSE Shape(call.inputs[1])[dim]

\* Shapes (2, 2) and (2, 1) joined along axis 1 give shape (2, 3).
C4_Witness ==
    /\ ConcatCalled
    /\ ConfiguredAxis = 1
    /\ Len(call.inputs) = 2
    /\ Shape(call.inputs[1]) = <<2, 2>>
    /\ Shape(call.inputs[2]) = <<2, 1>>
    /\ call.ret.kind = "tensor"
    /\ Shape(call.ret) = <<2, 3>>

\* C5: Concat.forward keeps order and content: splitting the output along
\* the axis at the inputs' boundaries gives back the inputs, in order.
C5_ConcatSplitsBack ==
    (ConcatCalled /\ call.ret.kind = "tensor")
    => \A k \in 1..Len(call.inputs) :
          Piece(call.ret, call.inputs, AxisDim(ConfiguredAxis), k) = call.inputs[k].value

\* Three inputs, the first two of one shape and different content, not in
\* ascending order of content.
C5_Witness ==
    /\ ConcatCalled
    /\ call.ret.kind = "tensor"
    /\ Len(call.inputs) = 3
    /\ Shape(call.inputs[1]) = Shape(call.inputs[2])
    /\ call.inputs[1].value[1][1] > call.inputs[2].value[1][1]
    /\ call.inputs[3] # call.inputs[1]

OffAxisMismatch(ins, d) == ValidAxis(d) /\ ~AgreeOffAxis(ins, d)

\* C6: Concat.forward ends in the engine's error, and returns no tensor, when
\* the configured axis is out of range (InvalidAxis) or the shapes differ off
\* the axis (ShapeMismatch); the error is the engine's, passed on as it is.
C6_ConcatErrors ==
    ConcatCalled
    => /\ ~ValidAxis(ConfiguredAxis) => call.ret = Raise("InvalidAxis")
       /\ OffAxisMismatch(call.inputs, ConfiguredAxis) => call.ret = Raise("ShapeMismatch")

C6_Witness ==
    /\ ConcatCalled
    /\ OffAxisMismatch(call.inputs, ConfiguredAxis)
    /\ call.ret.kind = "raise"

\* C9: a Concat layer's concat_dim and name are those of its construction in
\* every later state: no build or forward call, failed or not, changes the
\* layer object, and every forward call concatenates along the constructor's axis.
C9_ConcatConfigFixed ==
    [][\A l \in 1..Len(layers) :
          IsConcat(l) =>
             /\ l <= Len(layers')
             /\ layers'[l] = layers[l]
             /\ layers'[l].concat_dim = ctor_args'[l].concat_dim
             /\ (call'.op = "forward" /\ call'.layer = l)
                   => call'.ret = tf_concat(call'.inputs, ctor_args[l].concat_dim,
                                            layers[l].name)]_vars

\* A forward call on a layer of negative axis has ended in an engine error.
C9_Witness ==
    /\ ConcatCalled
    /\ call.ret.kind = "raise"
    /\ ConfiguredAxis = -1
    /\ layers[call.layer].concat_dim = -1

----------------------------------------------------------------------------
\* Properties of Elementwise (SpecElementwise).

ElementwiseCalled == call.op = "forward" /\ IsElementwise(call.layer)

Configured == ctor_args[call.layer]

\* The left fold of the inputs with the function fn.
LeftFold(fn, ins, name) == Fold(fn, ins[1], ins, 2, name)

Activated(act, t) == IF act = NoneVal THEN t ELSE tf_unary(act, t)

\* C1: for two or more inputs the configured function can combine,
\* Elementwise.forward returns the left fold of the inputs with the
\* constructor's combine_fn, the activation applied, and not an error.
C1_LeftFoldOfConfigured ==
    (/\ ElementwiseCalled
     /\ Len(call.inputs) >= 2
     /\ LeftFold(Configured.combine_fn, call.inputs, layers[call.layer].name).kind = "tensor")
    => call.ret = Activated(Configured.act,
                            LeftFold(Configured.combine_fn, call.inputs,
                                     layers[call.layer].name))

\* C2: constructed with act=None, Elementwise.forward returns the folded
\* accumulator itself: the activation step is skipped.
C2_NoActivationPassThrough ==
    (/\ ElementwiseCalled
     /\ Configured.act = NoneVal
     /\ LeftFold(Configured.combine_fn, call.inputs, layers[call.layer].name).kind = "tensor")
    => call.ret = LeftFold(Configured.combine_fn, call.inputs, layers[call.layer].name)

\* C3: for a single input a, Elementwise.forward returns act(a) when an
\* activation was configured and a itself when none was.
C3_SingleInput ==
    (ElementwiseCalled /\ Len(call.inputs) = 1)
    => call.ret = IF Configured.act = NoneVal
                  THEN call.inputs[1]
                  ELSE tf_unary(Configured.act, call.inputs[1])

\* C7: an Elementwise layer holds the constructor's combine_fn and act as
\* attributes in every state, and its construction succeeds.
C7_ElementwiseConfigHeld ==
    /\ \A l \in 1..Len(layers) :
          IsElementwise(l) => /\ layers[l].combine_fn = ctor_args[l].combine_fn
                              /\ layers[l].act = ctor_args[l].act
    /\ call.op = "init" => call.ret.kind # "raise"

----------------------------------------------------------------------------
\* Names (Spec).

Unnamed(l) == l \in 1..Len(layers) /\ ctor_args[l].name = NoneVal

\* C8: a layer constructed without a name has a non-empty name, and two
\* layers constructed without names, of one class or of both, have
\* different names.
C8_GeneratedNamesDistinct ==
    \A l \in 1..Len(layers) :
        Unnamed(l) => /\ layers[l].name # ""
                      /\ layers[l].name # NoneVal
                      /\ \A m \in 1..Len(layers) :
                            (Unnamed(m) /\ m # l) => layers[m].name # layers[l].name

\* Two layers of one class constructed in sequence, neither given a name.
C8_Witness ==
    /\ Len(layers) = 2
    /\ Unnamed(1) /\ Unnamed(2)
    /\ layers[1].cls = "Concat" /\ layers[2].cls = "Concat"

----------------------------------------------------------------------------
\* Concurrent calls (SpecThreads).

\* What the call of frame f returns when it runs alone.
Alone(f) ==
    IF layers[f.layer].cls = "Concat"
    THEN Concat_forward(layers[f.layer], f.inputs)
    ELSE Elementwise_forward(layers[f.layer], f.inputs)

AsConstructed(l) ==
    IF layers[l].cls = "Concat"
    THEN layers[l] = Concat_init(name_dict, ctor_args[l].concat_dim, ctor_args[l].name).self
    ELSE \E b \in BaseActs :
            layers[l] = Elementwise_init(name_dict, b, ctor_args[l].combine_fn,
                                         ctor_args[l].act, ctor_args[l].name).self

\* C10: under every interleaving of the steps of concurrent forward calls on
\* one layer, a call that has finished has the result it has when run alone
\* on its own inputs, and the layer is as its constructor left it.
C10_CallsDoNotInterfere ==
    /\ \A t \in Threads : frames[t].pc = "done" => frames[t].ret = Alone(frames[t])
    /\ \A l \in 1..Len(layers) : AsConstructed(l)

\* Two calls on different inputs have both run to their end, one returning a tensor.
C10_Witness ==
    /\ frames[1].pc = "done" /\ frames[2].pc = "done"
    /\ frames[1].inputs # frames[2].inputs
    /\ Len(frames[1].inputs) = 2
    /\ frames[1].ret.kind = "tensor"

====
